---- MODULE Spec2Model ----
(***************************************************************************)
(* Model of CurrencyConverter (src/main.py): the rolling rate cache file,  *)
(* the per-(base, day) historical snapshot files, and the operations       *)
(* get_exchange_rate, _cache_rates, _store_historical, convert_currency    *)
(* and get_historical_rates; and of CurrencyConverterApp: the favorites,   *)
(* their file, and the threads that the favorites list starts, one per row,*)
(* each running get_exchange_rate.                                         *)
(*                                                                         *)
(* Time is in seconds (time.time()).  A calendar date is represented by    *)
(* its day ordinal.  A rate is represented in tenths (0.9 is 9), so a      *)
(* product amount * rate is in tenths as well.  A Python exception is the  *)
(* field `exc` of the value an operator returns.  A call runs at one       *)
(* instant: the clock does not advance between its reads of time.time().   *)
(* The API answers with a mapping under "rates" or fails.                  *)
(***************************************************************************)
EXTENDS Integers, Sequences, FiniteSets, TLC

VARIABLES
    now,        \* time.time()
    cacheFile,  \* content of ~/.currency_cache/exchange_rates.json
    histFiles,  \* content of historical/<base>_<date>.json, per <<base, day>>
    stored,     \* per base, what _cache_rates last wrote for it in this run
    firstFetch, \* per <<base, day>>, the first table fetched in this run
    last,       \* what the most recent operation did and returned
    favorites,  \* self.favorites: favorite_id -> {base, target, timestamp}
    favFile,    \* content of ~/.currency_cache/favorites.json
    threads     \* per row of the favorites list, the thread started for it

vars == <<now, cacheFile, histFiles, stored, firstFetch, last,
          favorites, favFile, threads>>

----------------------------------------------------------------------------
\* Bounds and input sets.

MaxDay == 1

\* self.cache_timeout
CacheTimeout == 3600
\* seconds in one calendar day (the granularity of strftime("%Y-%m-%d"))
DaySeconds == 86400
\* days=7, the default look-back of get_historical_rates
DefaultDays == 7

Bases == {"USD", "EUR"}
Targets == {"EUR", "GBP"}

\* Rate tables the upstream API may answer with ("rates" of the body).
TableA == [c \in {"EUR", "GBP"} |-> IF c = "EUR" THEN 9 ELSE 8]
TableB == [c \in {"EUR"} |-> 10]
Tables == {TableA, TableB}
NoRates == [c \in {} |-> 0]

Amounts == {-1, 0, 100}

\* Outcomes of requests.get(url) .. response.json() .. data["rates"].
Responses ==
    {[kind |-> "ok", rates |-> t] : t \in Tables}
    \cup {[kind |-> k, rates |-> NoRates] : k \in {"transport", "http", "norates"}}

\* Instants at which something happens: the start, the last second before an
\* entry written at the start expires, its expiry, and the start of each
\* later day.
Offsets == {0, CacheTimeout - 1, CacheTimeout}
Instants == Offsets \cup {d * DaySeconds : d \in 1..MaxDay}

----------------------------------------------------------------------------
\* File contents.

Absent == [kind |-> "absent"]
\* not JSON at all: json.load raises JSONDecodeError
InvalidJson == [kind |-> "invalid"]
\* valid JSON, but a list ([]) instead of an object
JsonList == [kind |-> "list"]

\* datetime.now().strftime("%Y-%m-%d"), as a day ordinal
DateOf(t) == t \div DaySeconds

\* json.dump of {"timestamp": .., "rates": ..}
Entry(t, rates) == [kind |-> "entry", timestamp |-> t, rates |-> rates]
\* valid JSON values that are not such an object: {} and a number
EmptyObject == [kind |-> "empty"]
Scalar == [kind |-> "scalar"]

JsonDict(entries) == [kind |-> "dict", entries |-> entries]

\* json.load(f): the parsed value, or JSONDecodeError
JsonLoad(file) ==
    IF file.kind = "invalid"
    THEN [exc |-> "JSONDecodeError", value |-> file]
    ELSE [exc |-> "none", value |-> file]

----------------------------------------------------------------------------
\* CurrencyConverter: the cache of current rates.

\* Faults of the freshness test: the comparison turned round, and an entry
\* whose age equals the timeout taken as fresh.
FreshInverted(t, timestamp) == (t - timestamp) > CacheTimeout
FreshInclusive(t, timestamp) == (t - timestamp) <= CacheTimeout

\* (time.time() - cache_data[base]["timestamp"]) < self.cache_timeout
Fresh(t, timestamp) == (t - timestamp) < CacheTimeout

\* The cache check of get_exchange_rate: hit with the cached rates, a miss
\* (also when JSONDecodeError or KeyError is caught), or an exception the
\* except clause does not name.
CacheLookup(file, base, t) ==
    LET miss == [exc |-> "none", hit |-> FALSE, rates |-> NoRates]
    IN  IF file.kind = "absent" THEN miss
        ELSE LET loaded == JsonLoad(file)
             IN  IF loaded.exc = "JSONDecodeError" THEN miss
                 ELSE IF loaded.value.kind = "list" THEN miss
                 ELSE IF base \notin DOMAIN loaded.value.entries THEN miss
                 ELSE LET e == loaded.value.entries[base]
                      IN  IF e.kind = "scalar"
                          THEN [exc |-> "TypeError", hit |-> FALSE, rates |-> NoRates]
                          ELSE IF e.kind = "empty" THEN miss
                          ELSE IF Fresh(t, e.timestamp)
                          THEN [exc |-> "none", hit |-> TRUE, rates |-> e.rates]
                          ELSE miss

\* Fault of the update: the mapping is started afresh for every write.
UpsertAlone(entries, base, t, rates) == [b \in {base} |-> Entry(t, rates)]

\* cache_data[base_currency] = {"timestamp": time.time(), "rates": rates}
Upsert(entries, base, t, rates) ==
    [b \in (DOMAIN entries) \cup {base} |->
        IF b = base THEN Entry(t, rates) ELSE entries[b]]

\* _cache_rates: read the whole file, replace the entry of base, write the
\* whole file.  A file that is a JSON list makes the assignment raise.
CacheRates(file, base, rates, t) ==
    LET none == [b \in {} |-> EmptyObject]
        cache_data ==
            IF file.kind = "absent" THEN JsonDict(none)
            ELSE IF JsonLoad(file).exc = "JSONDecodeError" THEN JsonDict(none)
            ELSE JsonLoad(file).value
    IN  IF cache_data.kind = "list"
        THEN [exc |-> "TypeError", file |-> file]
        ELSE [exc |-> "none",
              file |-> JsonDict(Upsert(cache_data.entries, base, t, rates))]

\* Fault of _store_historical: no test for an existing file.
StoreHistoricalAlways(files, base, rates, t) ==
    [k \in (DOMAIN files) \cup {<<base, DateOf(t)>>} |->
        IF k = <<base, DateOf(t)>> THEN Entry(t, rates) ELSE files[k]]

\* _store_historical: write <base>_<today>.json unless it exists.
StoreHistorical(files, base, rates, t) ==
    LET hist_file == <<base, DateOf(t)>>
    IN  IF hist_file \in DOMAIN files
        THEN files
        ELSE files @@ (hist_file :> Entry(t, rates))

\* Fault of the except branch: the stale cached table is returned instead.
FetchErrorServesStale(file, files, base, fetch) ==
    IF file.kind = "dict" /\ base \in DOMAIN file.entries
       /\ file.entries[base].kind = "entry"
    THEN [exc |-> "none", fetch |-> fetch, rates |-> file.entries[base].rates,
          cacheFile |-> file, histFiles |-> files]
    ELSE [exc |-> "Exception", fetch |-> fetch, rates |-> NoRates,
          cacheFile |-> file, histFiles |-> files]

\* except Exception as e: raise Exception(f"Error fetching exchange rates: {e}")
FetchError(file, files, base, fetch) ==
    [exc |-> "Exception", fetch |-> fetch, rates |-> NoRates,
     cacheFile |-> file, histFiles |-> files]

\* get_exchange_rate: what it returns or raises, whether it called the API
\* (fetch: "none", "ok", or the kind of failure) and the files afterwards.
\* requests.get, raise_for_status and data["rates"] raise before anything is
\* written; an exception of _cache_rates ends the call before
\* _store_historical.
ExchangeRate(file, files, base, resp, t) ==
    LET look == CacheLookup(file, base, t)
        same == [cacheFile |-> file, histFiles |-> files]
    IN  IF look.exc # "none"
        THEN [exc |-> look.exc, fetch |-> "none", rates |-> NoRates] @@ same
        ELSE IF look.hit
        THEN [exc |-> "none", fetch |-> "none", rates |-> look.rates] @@ same
        ELSE IF resp.kind # "ok"
        THEN FetchError(file, files, base, resp.kind)
        ELSE LET cached == CacheRates(file, base, resp.rates, t)
             IN  IF cached.exc # "none"
                 THEN FetchError(file, files, base, "ok")
                 ELSE [exc |-> "none", fetch |-> "ok", rates |-> resp.rates,
                       cacheFile |-> cached.file,
                       histFiles |-> StoreHistorical(files, base, resp.rates, t)]

\* Fault of the product: the sign of the amount is dropped.
ProductAbs(amount, rate) == (IF amount < 0 THEN -amount ELSE amount) * rate

\* amount * rates[target_currency]
Product(amount, rate) == amount * rate

\* Fault of convert_currency: a target the table lacks counts as rate 0
\* (rates.get(target, 0)) instead of raising.
ConvertMissingAsZero(got, target, amount) ==
    IF got.exc # "none" THEN [exc |-> "Exception", value |-> 0]
    ELSE IF target \in DOMAIN got.rates
    THEN [exc |-> "none", value |-> amount * got.rates[target]]
    ELSE [exc |-> "none", value |-> 0]

\* convert_currency, given what get_exchange_rate did.
Convert(got, target, amount) ==
    IF got.exc # "none" THEN [exc |-> "Exception", value |-> 0]
    ELSE IF target \in DOMAIN got.rates
    THEN [exc |-> "none", value |-> Product(amount, got.rates[target])]
    ELSE [exc |-> "Exception", value |-> 0]

----------------------------------------------------------------------------
\* CurrencyConverter: the historical series.

EmptySeries == [dates |-> <<>>, rates |-> <<>>]

\* Fault of the return: the lists are returned as collected, today first.
ReversedNot(xs) == xs

RECURSIVE Reversed(_)
\* list(reversed(xs))
Reversed(xs) ==
    IF xs = <<>> THEN <<>> ELSE Append(Reversed(Tail(xs)), Head(xs))

RECURSIVE WalkBackSkips(_, _, _, _, _, _, _)
\* Fault of the loop: a snapshot file that cannot be read is skipped (a
\* try/except inside the loop) and the walk goes on to older days.
WalkBackSkips(files, base, target, today, i, days, acc) ==
    IF i >= days THEN acc
    ELSE LET hist_file == <<base, today - i>>
         IN  IF hist_file \notin DOMAIN files
             THEN WalkBackSkips(files, base, target, today, i + 1, days, acc)
             ELSE LET data == JsonLoad(files[hist_file])
                  IN  IF data.exc # "none"
                      THEN WalkBackSkips(files, base, target, today, i + 1, days, acc)
                      ELSE IF target \in DOMAIN data.value.rates
                      THEN WalkBackSkips(files, base, target, today, i + 1, days,
                               [dates |-> Append(acc.dates, today - i),
                                rates |-> Append(acc.rates, data.value.rates[target])])
                      ELSE WalkBackSkips(files, base, target, today, i + 1, days, acc)

RECURSIVE WalkBack(_, _, _, _, _, _, _)

\* Fault of the loop bounds: range(1, days - 1), one day short.
CollectedShort(got, base, target, days, t) ==
    IF got.exc # "none" THEN EmptySeries
    ELSE IF target \notin DOMAIN got.rates THEN EmptySeries
    ELSE WalkBack(got.histFiles, base, target, DateOf(t), 1, days - 1,
                  [dates |-> <<DateOf(t)>>, rates |-> <<got.rates[target]>>])

\* for i in range(1, days): the snapshot of today - i, when its file exists
\* and its table has the target.  An exception (json.load on a damaged file)
\* leaves the loop with what was collected.
WalkBack(files, base, target, today, i, days, acc) ==
    IF i >= days THEN acc
    ELSE LET hist_file == <<base, today - i>>
         IN  IF hist_file \notin DOMAIN files
             THEN WalkBack(files, base, target, today, i + 1, days, acc)
             ELSE LET data == JsonLoad(files[hist_file])
                  IN  IF data.exc # "none" THEN acc
                      ELSE IF target \in DOMAIN data.value.rates
                      THEN WalkBack(files, base, target, today, i + 1, days,
                               [dates |-> Append(acc.dates, today - i),
                                rates |-> Append(acc.rates, data.value.rates[target])])
                      ELSE WalkBack(files, base, target, today, i + 1, days, acc)

\* Fault of get_historical_rates: the exception of get_exchange_rate is not
\* caught.
HistoricalRatesUncaught(got, base, target, days, t) ==
    [exc |-> got.exc, series |-> EmptySeries]

\* The body of the try block of get_historical_rates, given what
\* get_exchange_rate did: what dates and rates hold when it is left.
Collected(got, base, target, days, t) ==
    IF got.exc # "none" THEN EmptySeries
    ELSE IF target \notin DOMAIN got.rates THEN EmptySeries
    ELSE WalkBack(got.histFiles, base, target, DateOf(t), 1, days,
                  [dates |-> <<DateOf(t)>>, rates |-> <<got.rates[target]>>])

\* get_historical_rates: every exception is caught and printed, and
\* (list(reversed(dates)), list(reversed(rates))) is returned.
HistoricalRates(got, base, target, days, t) ==
    LET collected == Collected(got, base, target, days, t)
    IN  [exc |-> "none",
         series |-> [dates |-> Reversed(collected.dates),
                     rates |-> Reversed(collected.rates)]]

----------------------------------------------------------------------------
\* The state machine.

\* The record of the most recent operation: its arguments, what its call of
\* get_exchange_rate did (inner, fetch, rates) and what it raised (exc) or
\* returned (rates, value, series).
Done(op, base, target, days, amount, got, exc, value, series) ==
    [op |-> op, base |-> base, target |-> target, days |-> days,
     amount |-> amount, inner |-> got.exc,
     fetch |-> IF got.fetch \in {"none", "ok"} THEN got.fetch ELSE "failed",
     rates |-> got.rates, exc |-> exc, value |-> value, series |-> series]

Idle ==
    [op |-> "none", base |-> "", target |-> "", days |-> 0, amount |-> 0,
     inner |-> "none", fetch |-> "none", rates |-> NoRates, exc |-> "none",
     value |-> 0, series |-> EmptySeries]

\* get_exchange_rate fetched and returned.
Fetched(got) == got.fetch = "ok" /\ got.exc = "none"

\* The files after a call of get_exchange_rate, and the bookkeeping of what
\* was stored and fetched.
Effects(base, got) ==
    /\ cacheFile' = got.cacheFile
    /\ histFiles' = got.histFiles
    /\ stored' = IF Fetched(got)
                 THEN [stored EXCEPT ![base] = Entry(now, got.rates)]
                 ELSE stored
    /\ firstFetch' = IF Fetched(got) /\ <<base, DateOf(now)>> \notin DOMAIN firstFetch
                     THEN firstFetch @@ (<<base, DateOf(now)>> :> Entry(now, got.rates))
                     ELSE firstFetch
    /\ UNCHANGED <<now, favorites, favFile, threads>>

\* The cache file as the program may find it when it starts: missing, or left
\* by an earlier run or a foreign write as something that is not JSON, as a
\* JSON list, or as an object whose value under one base is {} or a number.
FoundCacheFiles ==
    {Absent, InvalidJson, JsonList}
    \cup {JsonDict([b \in {c} |-> e]) : c \in Bases, e \in {EmptyObject, Scalar}}

\* __init__ creates the directories and touches no file.
Init ==
    /\ now = 0
    /\ cacheFile \in FoundCacheFiles
    /\ histFiles = <<>>
    /\ stored = [b \in Bases |-> Absent]
    /\ firstFetch = <<>>
    /\ last = Idle
    /\ favorites = <<>>
    /\ favFile = Absent
    /\ threads = <<>>

\* Time passes.
Tick ==
    /\ \E t \in Instants : t > now /\ now' = t
    /\ UNCHANGED <<cacheFile, histFiles, stored, firstFetch, last>>
    /\ UNCHANGED <<favorites, favFile, threads>>

GetExchangeRate(base, resp) ==
    LET got == ExchangeRate(cacheFile, histFiles, base, resp, now)
    IN  /\ Effects(base, got)
        /\ last' = Done("rate", base, "", 0, 0, got, got.exc, 0, EmptySeries)

ConvertCurrency(base, target, amount, resp) ==
    LET got == ExchangeRate(cacheFile, histFiles, base, resp, now)
        res == Convert(got, target, amount)
    IN  /\ Effects(base, got)
        /\ last' = Done("convert", base, target, 0, amount, got,
                        res.exc, res.value, EmptySeries)

GetHistoricalRates(base, target, days, resp) ==
    LET got == ExchangeRate(cacheFile, histFiles, base, resp, now)
        res == HistoricalRates(got, base, target, days, now)
    IN  /\ Effects(base, got)
        /\ last' = Done("history", base, target, days, 0, got,
                        res.exc, 0, res.series)

\* The rate cache: calls of get_exchange_rate as time passes.
Next ==
    \/ Tick
    \/ \E b \in Bases, r \in Responses : GetExchangeRate(b, r)

Spec == Init /\ [][Next]_vars

\* Time passes within the calendar day.
TickSameDay ==
    /\ \E t \in Instants : t > now /\ DateOf(t) = DateOf(now) /\ now' = t
    /\ UNCHANGED <<cacheFile, histFiles, stored, firstFetch, last>>
    /\ UNCHANGED <<favorites, favFile, threads>>

\* Conversions in the course of one day.
NextConvert ==
    \/ TickSameDay
    \/ \E b \in Bases, c \in Targets, a \in Amounts, r \in Responses :
            ConvertCurrency(b, c, a, r)

ConvertSpec == Init /\ [][NextConvert]_vars

\* The look-back of get_historical_rates over a store that earlier days have
\* filled: the program starts on the day after DefaultDays - 1 earlier days,
\* each of which left for the base a snapshot of one of the tables, a damaged
\* snapshot file (a torn write: not JSON), or none; today's rates are either
\* not cached or were fetched and stored a moment ago.
HistBase == "USD"
PriorDays == 0..(DefaultDays - 2)

SnapshotOf(d, c) ==
    IF c = "damaged" THEN InvalidJson
    ELSE Entry(d * DaySeconds, IF c = "A" THEN TableA ELSE TableB)

InitHist ==
    /\ now = (DefaultDays - 1) * DaySeconds
    /\ \E D \in SUBSET PriorDays, today \in BOOLEAN :
        \E f \in [D -> {"A", "B", "damaged"}] :
            LET past == [k \in {<<HistBase, d>> : d \in D} |-> SnapshotOf(k[2], f[k[2]])]
            IN  IF today
                THEN /\ cacheFile = JsonDict([b \in {HistBase} |-> Entry(now, TableA)])
                     /\ histFiles = past @@ (<<HistBase, DateOf(now)>> :> Entry(now, TableA))
                ELSE /\ cacheFile = Absent
                     /\ histFiles = past
    /\ stored = [b \in Bases |-> Absent]
    /\ firstFetch = <<>>
    /\ last = Idle
    /\ favorites = <<>>
    /\ favFile = Absent
    /\ threads = <<>>

\* One call of get_historical_rates on that store.
NextHist ==
    /\ last.op = "none"
    /\ \E c \in Targets, d \in 1..DefaultDays, r \in Responses :
            GetHistoricalRates(HistBase, c, d, r)

HistSpec == InitHist /\ [][NextHist]_vars

----------------------------------------------------------------------------
\* CurrencyConverterApp: the favorites.

\* The pairs the two read-only comboboxes are set to when "Add to Favorites"
\* is pressed.
FavPairs == {p \in Bases \X Targets : p[1] # p[2]}

\* favorite_id = f"{base}_{target}"
FavoriteId(base, target) == base \o "_" \o target

\* {"base": base, "target": target, "timestamp": time.time()}
Favorite(base, target, t) == [base |-> base, target |-> target, timestamp |-> t]

\* _load_favorites: the parsed file, or {} when it is missing or not JSON.
LoadFavorites(file) ==
    IF file.kind = "absent" THEN <<>>
    ELSE IF JsonLoad(file).exc = "JSONDecodeError" THEN <<>>
    ELSE JsonLoad(file).value.entries

\* _save_favorites: json.dump(self.favorites, f)
SaveFavorites(favs) == JsonDict(favs)

\* Fault of add_to_favorites: no test for an existing identifier, the
\* favorite is written over.
AddFavoriteOverwrites(favs, file, base, target, t) ==
    LET favorite_id == base \o "_" \o target
        added == [k \in (DOMAIN favs) \cup {favorite_id} |->
                     IF k = favorite_id THEN Favorite(base, target, t) ELSE favs[k]]
    IN  [added |-> TRUE, favorites |-> added, favFile |-> JsonDict(added)]

\* add_to_favorites: rejected ("Already Saved") when the identifier is in
\* self.favorites, else the favorite is added and the file written.
AddFavorite(favs, file, base, target, t) ==
    LET favorite_id == FavoriteId(base, target)
    IN  IF favorite_id \in DOMAIN favs
        THEN [added |-> FALSE, favorites |-> favs, favFile |-> file]
        ELSE LET added == favs @@ (favorite_id :> Favorite(base, target, t))
             IN  [added |-> TRUE, favorites |-> added,
                  favFile |-> SaveFavorites(added)]

\* _delete_favorite: if favorite_id in self.favorites: del, save.
RemoveFavorite(favs, file, favorite_id) ==
    IF favorite_id \in DOMAIN favs
    THEN LET kept == [k \in (DOMAIN favs) \ {favorite_id} |-> favs[k]]
         IN  [deleted |-> TRUE, favorites |-> kept, favFile |-> SaveFavorites(kept)]
    ELSE [deleted |-> FALSE, favorites |-> favs, favFile |-> file]

----------------------------------------------------------------------------
\* CurrencyConverterApp: the threads of the favorites list.

\* A thread running _update_favorite_rate(frame, row, base, target): where it
\* is in get_exchange_rate (pc), the table it fetched (rates), the mapping it
\* is about to dump (pending), and whether another thread opened or wrote
\* the cache file while this one had it open for writing (torn).
Thread(base, target) ==
    [base |-> base, target |-> target, pc |-> "check", rates |-> NoRates,
     pending |-> Absent, torn |-> FALSE]

\* _refresh_favorites_list: threading.Thread(...).start() for every favorite.
StartThreads(favs) ==
    [k \in DOMAIN favs |-> Thread(favs[k].base, favs[k].target)]

\* The thread has left _update_favorite_rate: get_exchange_rate returned
\* ("done") or raised ("failed", caught by except Exception).
Finished(th) == th.pc \in {"done", "failed"}

\* The thread at its end: its locals are gone.
Ended(th, pc) == [Thread(th.base, th.target) EXCEPT !.pc = pc]

\* Another thread opens or writes the file a thread holds open for writing.
Disturbed(ths, id) ==
    [k \in DOMAIN ths |->
        IF k # id /\ ths[k].pc = "dump" THEN [ths[k] EXCEPT !.torn = TRUE]
        ELSE ths[k]]

\* What a dump leaves in the file: the mapping dumped; when the writes of two
\* threads overlapped, possibly text that is not JSON.
DumpOutcomes(th) == IF th.torn THEN {th.pending, InvalidJson} ELSE {th.pending}

\* What the write of a snapshot leaves: the snapshot; when another thread
\* created the file after this one found it missing, possibly text that is
\* not JSON.
SnapshotOutcomes(files, th, t) ==
    IF <<th.base, DateOf(t)>> \in DOMAIN files
    THEN {Entry(t, th.rates), InvalidJson}
    ELSE {Entry(t, th.rates)}

----------------------------------------------------------------------------
\* The state machine of the application.

\* The record of a press of "Add to Favorites" or of "Delete".
Pressed(op, base, target, exc) ==
    [Idle EXCEPT !.op = op, !.base = base, !.target = target, !.exc = exc]

\* The favorites file as the program may find it when it starts: missing,
\* not JSON, or the favorites an earlier run saved.
FoundFavFiles ==
    {Absent, InvalidJson}
    \cup {SaveFavorites([k \in {FavoriteId(p[1], p[2]) : p \in P} |->
                CHOOSE f \in {Favorite(p[1], p[2], 0) : p \in P} :
                    FavoriteId(f.base, f.target) = k])
          : P \in SUBSET FavPairs}

\* The rate cache as the application finds it: missing, or holding the table
\* of the default base, fetched at the start.
FoundCaches ==
    {[cacheFile |-> Absent, histFiles |-> <<>>],
     [cacheFile |-> JsonDict([b \in {"USD"} |-> Entry(0, TableA)]),
      histFiles |-> (<<"USD", 0>> :> Entry(0, TableA))]}

\* CurrencyConverterApp.__init__: the favorites are loaded and the favorites
\* tab starts a thread for each of them.
InitApp ==
    /\ now = 0
    /\ \E c \in FoundCaches : cacheFile = c.cacheFile /\ histFiles = c.histFiles
    /\ stored = [b \in Bases |-> Absent]
    /\ firstFetch = <<>>
    /\ last = Idle
    /\ favFile \in FoundFavFiles
    /\ favorites = LoadFavorites(favFile)
    /\ threads = StartThreads(favorites)

\* "Add to Favorites" on the converter tab (the favorites tab is not the
\* current one, so the list is not refreshed).
AddToFavorites(base, target) ==
    LET res == AddFavorite(favorites, favFile, base, target, now)
    IN  /\ favorites' = res.favorites
        /\ favFile' = res.favFile
        /\ last' = Pressed("add", base, target,
                           IF res.added THEN "none" ELSE "AlreadySaved")
        /\ UNCHANGED <<now, cacheFile, histFiles, stored, firstFetch, threads>>

\* "Delete" on a row of the favorites tab; the refreshed list starts a thread
\* for each favorite that is left.
DeleteFavorite(favorite_id) ==
    LET res == RemoveFavorite(favorites, favFile, favorite_id)
    IN  /\ favorites' = res.favorites
        /\ favFile' = res.favFile
        /\ threads' = IF res.deleted THEN StartThreads(res.favorites) ELSE threads
        /\ last' = Pressed("delete", "", "", IF res.deleted THEN "none" ELSE "NotFound")
        /\ UNCHANGED <<now, cacheFile, histFiles, stored, firstFetch>>

\* The favorites as the user adds and deletes them.  The threads touch
\* neither self.favorites nor the favorites file; their steps are in
\* ThreadSpec.
NextFav ==
    \/ TickSameDay
    \/ \E p \in FavPairs : AddToFavorites(p[1], p[2])
    \/ \E p \in FavPairs : DeleteFavorite(FavoriteId(p[1], p[2]))

FavSpec == InitApp /\ [][NextFav]_vars

\* A step of one thread changes that thread, and perhaps the files.
ThreadStep(id, th) ==
    /\ threads' = [threads EXCEPT ![id] = th]
    /\ UNCHANGED <<now, stored, firstFetch, last, favorites, favFile>>

\* get_exchange_rate, the cache check (lines 80-90).
ThreadCacheCheck(id) ==
    LET th == threads[id]
        look == CacheLookup(cacheFile, th.base, now)
    IN  /\ th.pc = "check"
        /\ ThreadStep(id, IF look.exc # "none" THEN Ended(th, "failed")
                          ELSE IF look.hit THEN Ended(th, "done")
                          ELSE [th EXCEPT !.pc = "fetch"])
        /\ UNCHANGED <<cacheFile, histFiles>>

\* get_exchange_rate, the request (lines 93-97).
ThreadFetch(id, resp) ==
    LET th == threads[id]
    IN  /\ th.pc = "fetch"
        /\ ThreadStep(id, IF resp.kind # "ok" THEN Ended(th, "failed")
                          ELSE [th EXCEPT !.pc = "read", !.rates = resp.rates])
        /\ UNCHANGED <<cacheFile, histFiles>>

\* _cache_rates, reading the file and updating the mapping (lines 112-125).
ThreadCacheRead(id) ==
    LET th == threads[id]
        cached == CacheRates(cacheFile, th.base, th.rates, now)
    IN  /\ th.pc = "read"
        /\ ThreadStep(id, IF cached.exc # "none" THEN Ended(th, "failed")
                          ELSE [th EXCEPT !.pc = "open", !.pending = cached.file])
        /\ UNCHANGED <<cacheFile, histFiles>>

\* _cache_rates, open(self.cache_file, "w"): the file is truncated (line 128).
ThreadCacheOpen(id) ==
    LET th == threads[id]
    IN  /\ th.pc = "open"
        /\ cacheFile' = InvalidJson
        /\ threads' = [Disturbed(threads, id) EXCEPT ![id] = [th EXCEPT !.pc = "dump"]]
        /\ UNCHANGED <<now, histFiles, stored, firstFetch, last, favorites, favFile>>

\* _cache_rates, json.dump and the close of the file (line 129).
ThreadCacheDump(id) ==
    LET th == threads[id]
    IN  /\ th.pc = "dump"
        /\ cacheFile' \in DumpOutcomes(th)
        /\ threads' = [Disturbed(threads, id) EXCEPT
                          ![id] = [th EXCEPT !.pc = "exists", !.pending = Absent,
                                             !.torn = FALSE]]
        /\ UNCHANGED <<now, histFiles, stored, firstFetch, last, favorites, favFile>>

\* _store_historical, the test for today's file (lines 133-138).
ThreadSnapshotExists(id) ==
    LET th == threads[id]
    IN  /\ th.pc = "exists"
        /\ ThreadStep(id, IF <<th.base, DateOf(now)>> \in DOMAIN histFiles
                          THEN Ended(th, "done")
                          ELSE [th EXCEPT !.pc = "snapshot"])
        /\ UNCHANGED <<cacheFile, histFiles>>

\* _store_historical, the write of today's file (lines 140-144).
ThreadSnapshotWrite(id) ==
    LET th == threads[id]
        hist_file == <<th.base, DateOf(now)>>
    IN  /\ th.pc = "snapshot"
        /\ \E content \in SnapshotOutcomes(histFiles, th, now) :
              histFiles' = [k \in (DOMAIN histFiles) \cup {hist_file} |->
                               IF k = hist_file THEN content ELSE histFiles[k]]
        /\ ThreadStep(id, Ended(th, "done"))
        /\ UNCHANGED cacheFile

\* The threads of the favorites list, in every interleaving.
NextThreads ==
    \/ TickSameDay
    \/ \E id \in DOMAIN threads : ThreadCacheCheck(id)
    \/ \E id \in DOMAIN threads, r \in Responses : ThreadFetch(id, r)
    \/ \E id \in DOMAIN threads : ThreadCacheRead(id)
    \/ \E id \in DOMAIN threads : ThreadCacheOpen(id)
    \/ \E id \in DOMAIN threads : ThreadCacheDump(id)
    \/ \E id \in DOMAIN threads : ThreadSnapshotExists(id)
    \/ \E id \in DOMAIN threads : ThreadSnapshotWrite(id)

ThreadSpec == InitApp /\ [][NextThreads]_vars

----------------------------------------------------------------------------
\* Properties of the rate cache (Spec).

\* The value the cache file holds under a base, Absent when it holds none.
CachedEntry(file, base) ==
    IF file.kind = "dict" /\ base \in DOMAIN file.entries
    THEN file.entries[base]
    ELSE Absent

HasEntry(file, base) == CachedEntry(file, base).kind = "entry"

\* C1: after a call of get_exchange_rate(base) that fetched and stored, a
\* second call for the same base less than cache_timeout after that store,
\* with nothing else in between, does not call the API and returns the table
\* the first call stored.
C1_SecondCallServedFromCache ==
    \A b \in Bases, r \in Responses :
        (/\ last.op = "rate" /\ last.base = b
         /\ last.fetch = "ok" /\ last.exc = "none"
         /\ now - stored[b].timestamp < CacheTimeout)
        => LET again == ExchangeRate(cacheFile, histFiles, b, r, now)
           IN  /\ again.exc = "none"
               /\ again.fetch = "none"
               /\ again.rates = last.rates

\* A call served from the cache in the last second before the entry expires.
C1_Witness ==
    /\ last.op = "rate" /\ last.fetch = "none" /\ last.exc = "none"
    /\ stored[last.base].kind = "entry"
    /\ last.rates = stored[last.base].rates
    /\ now - stored[last.base].timestamp = CacheTimeout - 1

\* C2: get_exchange_rate(base) serves from the cache exactly when the file
\* holds an entry for base whose age is strictly less than cache_timeout; the
\* table served is the one _cache_rates last stored for base; a stale entry
\* is reported absent and stays in the file through every call except one
\* that fetches successfully for that base.
C2_ServedIffFresh ==
    \A b \in Bases, r \in Responses :
        LET e == CachedEntry(cacheFile, b)
            got == ExchangeRate(cacheFile, histFiles, b, r, now)
            served == got.exc = "none" /\ got.fetch = "none"
            fresh == e.kind = "entry" /\ now - e.timestamp < CacheTimeout
        IN  /\ served <=> fresh
            /\ served => got.rates = e.rates /\ e = stored[b]
            /\ (e.kind = "entry" /\ ~fresh) =>
                  \A b2 \in Bases, r2 \in Responses :
                      LET other == ExchangeRate(cacheFile, histFiles, b2, r2, now)
                      IN  \/ CachedEntry(other.cacheFile, b) = e
                          \/ b2 = b /\ Fetched(other)

\* An entry whose age equals the timeout was reported absent: the call went
\* to the API, which failed, and the entry is still in the file.
C2_Witness ==
    /\ last.op = "rate" /\ last.fetch = "failed"
    /\ HasEntry(cacheFile, last.base)
    /\ now - CachedEntry(cacheFile, last.base).timestamp = CacheTimeout

\* C3: a snapshot file, once written, is never changed or removed by a call,
\* and holds the table of the first successful fetch of its base on its day.
C3_SnapshotWrittenOnce ==
    /\ \A k \in DOMAIN histFiles :
            k \in DOMAIN firstFetch /\ histFiles[k] = firstFetch[k]
    /\ \A b \in Bases, r \in Responses :
            LET got == ExchangeRate(cacheFile, histFiles, b, r, now)
            IN  \A k \in DOMAIN histFiles :
                    k \in DOMAIN got.histFiles /\ got.histFiles[k] = histFiles[k]

\* A later fetch of the same day returned another table than the snapshot.
C3_Witness ==
    /\ last.op = "rate" /\ last.fetch = "ok" /\ last.exc = "none"
    /\ <<last.base, DateOf(now)>> \in DOMAIN histFiles
    /\ histFiles[<<last.base, DateOf(now)>>].rates # last.rates

\* C4: without a fresh entry for base, a failing fetch makes
\* get_exchange_rate raise, return no table (not the stale one either) and
\* leave the cache file and the snapshot files as they were.
C4_FailedFetchChangesNothing ==
    /\ \A b \in Bases, r \in Responses :
            LET e == CachedEntry(cacheFile, b)
                got == ExchangeRate(cacheFile, histFiles, b, r, now)
            IN  (r.kind # "ok" /\ ~(e.kind = "entry" /\ now - e.timestamp < CacheTimeout))
                => /\ got.exc # "none"
                   /\ got.rates = NoRates
                   /\ got.cacheFile = cacheFile
                   /\ got.histFiles = histFiles
    /\ (last.op = "rate" /\ last.fetch = "failed")
            => last.exc = "Exception" /\ last.rates = NoRates

\* A fetch failed on a day after the one the stale entry is from: the entry
\* is still there and the day has no snapshot.
C4_Witness ==
    /\ last.op = "rate" /\ last.fetch = "failed" /\ last.exc = "Exception"
    /\ HasEntry(cacheFile, last.base)
    /\ now - CachedEntry(cacheFile, last.base).timestamp >= CacheTimeout
    /\ <<last.base, DateOf(now)>> \notin DOMAIN histFiles

\* C5: _cache_rates(base, table) sets the entry of base to the table with the
\* current timestamp and leaves what the file holds under every other base;
\* so each base's entry is always the one last stored for it, and the file
\* is a mapping with one value per base.
C5_StoreReplacesOnlyItsBase ==
    /\ \A b \in Bases :
            stored[b].kind = "entry" => CachedEntry(cacheFile, b) = stored[b]
    /\ \A b \in Bases, t \in Tables :
            LET c == CacheRates(cacheFile, b, t, now)
            IN  c.exc = "none" =>
                    /\ c.file.kind = "dict"
                    /\ DOMAIN c.file.entries \subseteq Bases
                    /\ CachedEntry(c.file, b) = Entry(now, t)
                    /\ \A b2 \in Bases \ {b} :
                            CachedEntry(c.file, b2) = CachedEntry(cacheFile, b2)

\* Both bases have entries, stored at different times.
C5_Witness ==
    /\ last.op = "rate" /\ last.fetch = "ok" /\ last.exc = "none"
    /\ \A b \in Bases : HasEntry(cacheFile, b)
    /\ \E b \in Bases :
            CachedEntry(cacheFile, b).timestamp
                # CachedEntry(cacheFile, last.base).timestamp

\* C6: a cache file that is not JSON, or is JSON of another structure, never
\* makes get_exchange_rate fail: a call fails only when its fetch failed, and
\* after a successful fetch the file holds an entry for base.
C6_CorruptCacheNeverFails ==
    last.op = "rate" =>
        \/ last.fetch = "failed"
        \/ /\ last.exc = "none"
           /\ last.fetch = "ok" => HasEntry(cacheFile, last.base)

----------------------------------------------------------------------------
\* Properties of the historical series (HistSpec).

Today == DateOf(now)

\* The dates of a list are strictly ascending.
Ascending(dates) == \A i \in 1..(Len(dates) - 1) : dates[i] < dates[i + 1]

\* The call obtained today's rates and they have the target.
TodayKnown == last.inner = "none" /\ last.target \in DOMAIN last.rates

\* C7 as stated: when get_exchange_rate fails, get_historical_rates fails.
C7_FailsWithoutTodaysRates ==
    (last.op = "history" /\ last.inner # "none") => last.exc # "none"

\* C7, amended: when get_exchange_rate fails, get_historical_rates does not
\* fail; it returns the empty series.
C7_EmptyWithoutTodaysRates ==
    (last.op = "history" /\ last.inner # "none")
        => last.exc = "none" /\ last.series = EmptySeries

\* The fetch failed although yesterday's snapshot is there to be read.
C7_Witness ==
    /\ last.op = "history" /\ last.inner # "none" /\ last.fetch = "failed"
    /\ last.days = DefaultDays
    /\ <<last.base, Today - 1>> \in DOMAIN histFiles
    /\ histFiles[<<last.base, Today - 1>>].kind = "entry"

\* C8 as stated: a returned series has between 1 and days points, strictly
\* ascending dates, and today with today's rate as its last point.
C8_SeriesEndsToday ==
    last.op = "history" =>
        /\ Len(last.series.dates) \in 1..last.days
        /\ Len(last.series.rates) = Len(last.series.dates)
        /\ Ascending(last.series.dates)
        /\ last.series.dates[Len(last.series.dates)] = Today
        /\ last.target \in DOMAIN last.rates
        /\ last.series.rates[Len(last.series.rates)] = last.rates[last.target]

\* C8, amended: a returned series has between 0 and days points and strictly
\* ascending dates; it is empty exactly when today's rates were not obtained
\* or lack the target, and otherwise ends with today and today's rate.
C8_SeriesEmptyOrEndsToday ==
    last.op = "history" =>
        /\ Len(last.series.dates) \in 0..last.days
        /\ Len(last.series.rates) = Len(last.series.dates)
        /\ Ascending(last.series.dates)
        /\ IF TodayKnown
           THEN /\ Len(last.series.dates) >= 1
                /\ last.series.dates[Len(last.series.dates)] = Today
                /\ last.series.rates[Len(last.series.rates)] = last.rates[last.target]
           ELSE last.series = EmptySeries

\* A series with a point for every one of the days asked for.
C8_Witness ==
    /\ last.op = "history" /\ last.days = DefaultDays
    /\ Len(last.series.dates) = DefaultDays

\* The days before today that get_historical_rates(days) looks at.
Window == (Today - last.days + 1)..(Today - 1)

\* The snapshot file of a day exists and is not JSON.
Unreadable(d) ==
    /\ <<last.base, d>> \in DOMAIN histFiles
    /\ histFiles[<<last.base, d>>].kind # "entry"

\* The day has a snapshot whose table has the target.
HasPoint(d) ==
    /\ <<last.base, d>> \in DOMAIN histFiles
    /\ histFiles[<<last.base, d>>].kind = "entry"
    /\ last.target \in DOMAIN histFiles[<<last.base, d>>].rates

\* The series is today's point plus the snapshot points of the days wanted.
SeriesIs(wanted) ==
    LET s == last.series
    IN  /\ Len(s.dates) = Cardinality(wanted) + 1
        /\ Len(s.rates) = Len(s.dates)
        /\ {s.dates[i] : i \in 1..Len(s.dates)} = wanted \cup {Today}
        /\ \A i \in 1..Len(s.dates) :
                s.rates[i] = IF s.dates[i] = Today
                             THEN last.rates[last.target]
                             ELSE histFiles[<<last.base, s.dates[i]>>].rates[last.target]

\* C9 as stated: with today's rates known, the series is today's point plus
\* one point for each of the previous days - 1 days that has a snapshot with
\* the target, and nothing else.
C9_EverySnapshotInWindow ==
    (last.op = "history" /\ TodayKnown)
        => SeriesIs({d \in Window : HasPoint(d)})

\* C9, amended: the same, for the days that are more recent than every
\* unreadable snapshot file of the window.
C9_SnapshotsUpToUnreadable ==
    (last.op = "history" /\ TodayKnown)
        => SeriesIs({d \in Window :
                        HasPoint(d) /\ \A e \in d..(Today - 1) : ~Unreadable(e)})

\* days = 7 on a store with snapshots for exactly 3 of the prior 6 days: the
\* series has 4 points.
C9_Witness ==
    /\ last.op = "history" /\ TodayKnown /\ last.days = DefaultDays
    /\ Cardinality({d \in Window : <<last.base, d>> \in DOMAIN histFiles}) = 3
    /\ Len(last.series.dates) = 4

\* The most recent day of the window whose snapshot file cannot be read.
LastUnreadable ==
    CHOOSE u \in Window :
        Unreadable(u) /\ \A e \in Window : Unreadable(e) => e <= u

\* C14: get_historical_rates never raises and returns two lists of equal
\* length; when a snapshot file of the window cannot be read, the walk stops
\* there: the series has today and the snapshot points of the more recent
\* days only, and no day as old as the unreadable one or older.
C14_WalkStopsAtUnreadable ==
    last.op = "history" =>
        /\ last.exc = "none"
        /\ Len(last.series.dates) = Len(last.series.rates)
        /\ (TodayKnown /\ \E d \in Window : Unreadable(d)) =>
              /\ {last.series.dates[i] : i \in 1..Len(last.series.dates)}
                    = {Today} \cup {d \in Window : d > LastUnreadable /\ HasPoint(d)}
              /\ \A i \in 1..Len(last.series.dates) :
                    last.series.dates[i] > LastUnreadable

\* A day's file is unreadable; yesterday's point is in the series and an
\* older day that has a snapshot with the target is not.
C14_Witness ==
    /\ last.op = "history" /\ TodayKnown
    /\ \E d \in Window : Unreadable(d)
    /\ HasPoint(Today - 1)
    /\ Len(last.series.dates) = 2
    /\ \E d \in Window : d < LastUnreadable /\ HasPoint(d)

----------------------------------------------------------------------------
\* Properties of the conversion (ConvertSpec).

\* C10: when the table get_exchange_rate returns has the target,
\* convert_currency returns amount * rates[target] for every amount, negative
\* and zero included (rates in tenths: 100 at 0.9 gives 90.0).
C10_ConvertIsProduct ==
    (last.op = "convert" /\ last.inner = "none" /\ last.target \in DOMAIN last.rates)
        => /\ last.exc = "none"
           /\ last.value = last.amount * last.rates[last.target]
           /\ last.amount = 0 => last.value = 0

\* 100 converted at 0.9 gave 90.0, from a table that came out of the cache.
C10_Witness ==
    /\ last.op = "convert" /\ last.exc = "none" /\ last.fetch = "none"
    /\ last.amount = 100
    /\ last.target \in DOMAIN last.rates
    /\ last.rates[last.target] = 9
    /\ last.value = 900

\* C11: when the table get_exchange_rate returns (fetched or cached) lacks
\* the target, convert_currency raises and returns no number, for every
\* amount.
C11_UnknownTargetRaises ==
    (last.op = "convert" /\ last.inner = "none" /\ last.target \notin DOMAIN last.rates)
        => last.exc = "Exception" /\ last.value = 0

\* A conversion to GBP raised on a cached table that has EUR only.
C11_Witness ==
    /\ last.op = "convert" /\ last.inner = "none" /\ last.fetch = "none"
    /\ last.rates = TableB
    /\ last.target = "GBP" /\ last.amount = 100
    /\ last.exc = "Exception"

----------------------------------------------------------------------------
\* Properties of the favorites (FavSpec).

\* C12: at every point of any sequence of adds and deletes, no two
\* favorites are for the same (base, target) pair and each is stored under
\* the identifier base_target of its pair; and add_to_favorites for a pair
\* whose identifier is present adds nothing and leaves self.favorites (the
\* favorite of the pair with its timestamp, and every other favorite) and
\* the favorites file as they are.
C12_FavoritesUniquePerPair ==
    /\ \A k1 \in DOMAIN favorites, k2 \in DOMAIN favorites :
          (favorites[k1].base = favorites[k2].base
           /\ favorites[k1].target = favorites[k2].target) => k1 = k2
    /\ \A k \in DOMAIN favorites :
          k = FavoriteId(favorites[k].base, favorites[k].target)
    /\ \A p \in FavPairs :
          LET res == AddFavorite(favorites, favFile, p[1], p[2], now)
          IN  FavoriteId(p[1], p[2]) \in DOMAIN favorites =>
                 /\ ~res.added
                 /\ res.favorites = favorites
                 /\ res.favFile = favFile
    /\ (last.op = "add" /\ last.exc = "AlreadySaved") =>
          FavoriteId(last.base, last.target) \in DOMAIN favorites

\* A pair saved earlier is added again at a later time, beside another
\* favorite, and is rejected; the file holds the favorites as they were.
C12_Witness ==
    /\ last.op = "add" /\ last.exc = "AlreadySaved"
    /\ FavoriteId(last.base, last.target) \in DOMAIN favorites
    /\ favorites[FavoriteId(last.base, last.target)].timestamp < now
    /\ Cardinality(DOMAIN favorites) >= 2
    /\ favFile = SaveFavorites(favorites)

----------------------------------------------------------------------------
\* Properties of the threads of the favorites list (ThreadSpec).

\* C13: when the threads of the favorites list, running get_exchange_rate
\* for at least two different bases, have all returned from it, the cache
\* file holds an entry for the base of each thread.
C13_NoLostUpdate ==
    (/\ Cardinality({threads[k].base : k \in DOMAIN threads}) >= 2
     /\ \A k \in DOMAIN threads : threads[k].pc = "done")
        => \A k \in DOMAIN threads : HasEntry(cacheFile, threads[k].base)

====
